---- MODULE Spec2Model ----
(***************************************************************************)
(* Job-status orchestration of the ai-synapse-ocr web client:              *)
(*   - ocrService.pollStatus   (services/ocrService.js, the poll loop)     *)
(*   - useOCR                  (hooks/useOCR.js, the hook state)           *)
(*   - OCRProcessingPage       (pages/OCRProcessingPage.jsx, buttons,      *)
(*                              unmount cleanup and the stage list)        *)
(* JavaScript runs handlers to completion on one thread, so each action    *)
(* below is one event-loop task: the code from one resumption point up to  *)
(* the next await that needs the network or a timer.                       *)
(***************************************************************************)
EXTENDS Integers, Sequences, FiniteSets, TLC

(* ------------------------------ bounds --------------------------------- *)
\* number of startProcessing calls made from the processing page
MaxCalls == 2
\* number of direct pollStatus calls
MaxPolls == 1
\* number of status fetches issued over all calls
MaxFetches == 3
\* number of times the processing page is mounted
MaxMounts == 2
\* a non-default poll interval a direct caller may pass
ShortInterval == 500
\* number of transport progress events of one upload
MaxTicks == 2
\* number of uploadDocument calls explored
MaxUploads == 2
\* executeQuery calls modelled
MaxQueries == 2

(* ------------------------------ values --------------------------------- *)
\* interval = 2000 default parameter of pollStatus
DefaultInterval == 2000

\* the closed status enum of the backend
StatusEnum ==
    {"uploaded", "preprocessing", "ocr_processing", "table_extraction",
     "embedding_generation", "completed", "failed"}

\* a status value the documented enum does not list
UndocumentedStatus == "queued"

\* what a status response can carry
AnyStatus == StatusEnum \cup {UndocumentedStatus}

\* JS null held by useState(null) for status; observations carry id >= 1
NullStatus == [id |-> 0, status |-> "null"]

IsNull(st) == st.id = 0

\* one status response of GET /ocr/{id}/status; id is the serial number of
\* the response within its poll loop, so that two responses of a loop are
\* never confused
Observation(n, s) == [id |-> n, status |-> s]

\* JS null held by useState(null) for error
NullError == "null"

\* no error object
NoError == [name |-> "none", detail |-> "null"]

\* errors a request can reject with: no response at all (err.response
\* undefined), or a response whose body carries a detail message
Errors ==
    {[name |-> "Network Error", detail |-> "null"],
     [name |-> "Request failed with status code 500", detail |-> "OCR engine unavailable"]}

\* an exception raised by a caller-supplied onUpdate callback
CallbackError == [name |-> "callback threw", detail |-> "null"]

(* ----------------------------- variables ------------------------------- *)
VARIABLES
    mounted,     \* the processing page is currently mounted
    inst,        \* serial number of the page instance (mount generation)
    hasStarted,  \* OCRProcessingPage: useState(false)
    processing,  \* useOCR: useState(false)
    status,      \* useOCR: useState(null)
    error,       \* useOCR: useState(null)
    runs,        \* one record per startProcessing / pollStatus call
    nfetch,      \* status fetches issued so far, over all calls
    selectedFile,      \* UploadPage: useState(null)
    uploadedDocument,  \* UploadPage: useState(null)
    uploading,         \* useUpload: useState(false)
    progress,          \* useUpload: useState(0)
    uploadError,       \* useUpload: error, useState(null)
    upload,            \* the latest useUpload.uploadDocument call
    nupload,           \* uploadDocument calls made so far
    documents,         \* QueryPage: useState([])
    selectedDocs,      \* QueryPage: useState([])
    queryHistory,      \* QueryPage: useState([])
    querying,          \* useQuery: useState(false)
    queryResult,       \* useQuery: result, useState(null)
    queryError,        \* useQuery: error, useState(null)
    qcalls,            \* one record per useQuery.executeQuery call
    requests,          \* the bodies of the POST /query/ requests sent
    lastQueryEvent     \* the latest start or failure of an executeQuery call

ocrVars == <<mounted, inst, hasStarted, processing, status, error, runs, nfetch>>

uploadVars ==
    <<selectedFile, uploadedDocument, uploading, progress, uploadError, upload, nupload>>

queryVars ==
    <<documents, selectedDocs, queryHistory, querying, queryResult, queryError,
      qcalls, requests, lastQueryEvent>>

vars == <<ocrVars, uploadVars, queryVars>>

Hook == [processing |-> processing, status |-> status, error |-> error]

SetHook(h) ==
    /\ processing' = h.processing
    /\ status' = h.status
    /\ error' = h.error

(* --------------------------- ocrService.pollStatus --------------------- *)
(* A call record keeps, besides the position of the loop (pc) and what it  *)
(* settled with (result), the history of the call: log is the sequence of  *)
(* its events ("fetch" a GET issued, "resp" a GET resolved, "error" a GET  *)
(* rejected, "cb" onUpdate invoked, "throw" onUpdate raised, "wait" a      *)
(* setTimeout started), received the responses the transport produced,     *)
(* delivered the arguments onUpdate was invoked with, waited the delays    *)
(* handed to setTimeout, failedWith the error the transport produced.      *)

\* variant: every status that is not a known stage in progress ends the loop
IsTerminalUnlessStage(s) ==
    s \notin {"preprocessing", "ocr_processing", "table_extraction",
               "embedding_generation"}

\* variant: the terminal test forgets 'failed'
IsTerminalOnlyCompleted(s) == s = "completed"

\* status.status === 'completed' || status.status === 'failed'
IsTerminal(s) == s = "completed" \/ s = "failed"

\* this.getProcessingStatus(documentId): the GET is issued
getProcessingStatus(run) ==
    [run EXCEPT !.pc = "fetching", !.log = Append(@, "fetch")]

\* variant: poll() is re-entered at once, with no setTimeout
pollWaitNone(run) == getProcessingStatus(run)

\* await new Promise(resolve => setTimeout(resolve, interval))
pollWait(run) ==
    [run EXCEPT !.pc = "waiting",
                !.log = Append(@, "wait"),
                !.waited = Append(@, run.interval)]

\* variant: the catch swallows the error and polls again after the interval
pollCatchRetry(run, e) == pollWait(run)

\* catch (error) { console.error(...); throw error; }
pollCatch(run, e) ==
    [run EXCEPT !.pc = "rejected",
                !.result = [kind |-> "rejected", value |-> NullStatus, error |-> e]]

\* variant: the loop resolves with the first observation it saw
pollReturnFirst(run, o) ==
    [run EXCEPT !.pc = "resolved",
                !.result = [kind |-> "resolved", value |-> run.delivered[1],
                            error |-> NoError]]

\* return status
pollReturn(run, o) ==
    [run EXCEPT !.pc = "resolved",
                !.result = [kind |-> "resolved", value |-> o, error |-> NoError]]

\* variant: an exception of the callback is swallowed and the loop goes on
pollIgnoresThrow(run, o, throws) ==
    LET fed == [run EXCEPT !.log = Append(@, "cb"), !.delivered = Append(@, o)]
        went == IF throws THEN [fed EXCEPT !.log = Append(@, "throw")] ELSE fed
    IN  IF IsTerminal(o.status) THEN pollReturn(went, o) ELSE pollWait(went)

\* variant: the terminal test comes first, so a terminal status is returned
\* without being handed to the callback
pollCallbackAfterCheck(run, o, throws) ==
    LET fed == [run EXCEPT !.log = Append(@, "cb"), !.delivered = Append(@, o)]
    IN  IF IsTerminal(o.status)
        THEN pollReturn(run, o)
        ELSE IF throws
        THEN pollCatch([fed EXCEPT !.log = Append(@, "throw")], CallbackError)
        ELSE pollWait(fed)

\* the body of poll from the resolved await of the GET to the next await:
\* onUpdate(status); terminal -> return status; else wait.
\* throws: the callback raises, which lands in the catch of poll
poll(run, o, throws) ==
    LET fed == [run EXCEPT !.log = Append(@, "cb"), !.delivered = Append(@, o)]
    IN  IF throws
        THEN pollCatch([fed EXCEPT !.log = Append(@, "throw")], CallbackError)
        ELSE IF IsTerminal(o.status)
        THEN pollReturn(fed, o)
        ELSE pollWait(fed)

\* a fresh call record
NewRun(caller, owner, interval, pc) ==
    [caller |-> caller, owner |-> owner, interval |-> interval, pc |-> pc,
     log |-> <<>>, waited |-> <<>>,
     received |-> <<>>, delivered |-> <<>>, failedWith |-> NoError,
     result |-> [kind |-> "pending", value |-> NullStatus, error |-> NoError],
     ret |-> "pending"]

(* ------------------------------- useOCR -------------------------------- *)
\* setProcessing(true); setError(null) at the head of startProcessing
startProcessing(h) == [h EXCEPT !.processing = TRUE, !.error = NullError]

\* variant: only the status field of the held copy is overwritten
onUpdateStatusField(h, o) ==
    [h EXCEPT !.status = [id |-> IF IsNull(h.status) THEN o.id ELSE h.status.id,
                          status |-> o.status],
              !.processing = IF o.status = "completed" \/ o.status = "failed"
                             THEN FALSE ELSE @]

\* variant: the first observation is kept, later ones are dropped
onUpdateKeepsFirst(h, o) ==
    [h EXCEPT !.status = IF IsNull(h.status) THEN o ELSE @,
              !.processing = IF o.status = "completed" \/ o.status = "failed"
                             THEN FALSE ELSE @]

\* variant: the callback stores the observation and leaves processing alone
onUpdateStatusOnly(h, o) == [h EXCEPT !.status = o]

\* variant: only 'completed' ends the processing flag
onUpdateOnlyCompleted(h, o) ==
    [h EXCEPT !.status = o,
              !.processing = IF o.status = "completed" THEN FALSE ELSE @]

\* the onUpdate callback handed to pollStatus
onUpdate(h, o) ==
    [h EXCEPT !.status = o,
              !.processing = IF o.status = "completed" \/ o.status = "failed"
                             THEN FALSE ELSE @]

\* err.response?.data?.detail || 'Processing failed'
ErrorMessage(e) == IF e.detail = "null" THEN "Processing failed" ELSE e.detail

\* the catch block of startProcessing
startProcessingCatch(h, e) ==
    [h EXCEPT !.processing = FALSE, !.error = ErrorMessage(e)]

\* variant: the failure of the start request is swallowed and polling begins
startProcessingRejectedPolls(run) == getProcessingStatus(run)

\* await ocrService.startProcessing(...) throws: control goes to the catch,
\* pollStatus is never called, the call returns {success: false}
startProcessingRejected(run) == [run EXCEPT !.pc = "startFailed", !.ret = "failure"]

\* variant: reset leaves the held status alone
resetKeepsStatus(h) == [h EXCEPT !.processing = FALSE, !.error = NullError]

\* reset
reset(h) == [processing |-> FALSE, status |-> NullStatus, error |-> NullError]

\* React drops state updates of a component that is no longer mounted, and a
\* remounted page has a fresh useOCR state: a setter reached through a call
\* started by an earlier instance changes nothing of the current one
Live(run) == run.caller = "useOCR" /\ mounted /\ run.owner = inst

(* ------------------- OCRProcessingPage: Processing Steps --------------- *)
\* the array literal mapped over by the Processing Steps list
Steps ==
    << [name |-> "Preprocessing",        status |-> "preprocessing"],
       [name |-> "OCR Text Extraction",  status |-> "ocr_processing"],
       [name |-> "Table Detection",      status |-> "table_extraction"],
       [name |-> "Embedding Generation", status |-> "embedding_generation"],
       [name |-> "Completed",            status |-> "completed"] >>

\* the four-element array literal both indexOf calls search
StageOrder ==
    <<"preprocessing", "ocr_processing", "table_extraction", "embedding_generation">>

\* Array.prototype.indexOf: zero-based position of the first match, else -1
indexOf(arr, x) ==
    IF \E i \in 1..Len(arr) : arr[i] = x
    THEN (CHOOSE i \in 1..Len(arr) : arr[i] = x /\ \A j \in 1..(i - 1) : arr[j] # x) - 1
    ELSE -1

\* status?.status : undefined when status is null
OptionalStatus(st) == IF IsNull(st) THEN "undefined" ELSE st.status

\* truthiness of the status object in `status && ...`
Truthy(st) == ~IsNull(st)

\* variant: the status is compared with the step's display name
isActiveByName(st, step) == OptionalStatus(st) = step.name

\* const isActive = status?.status === step.status
isActive(st, step) == OptionalStatus(st) = step.status

\* variant: >= in place of >
isCompletedGeq(st, step) ==
    \/ OptionalStatus(st) = "completed"
    \/ /\ Truthy(st)
       /\ indexOf(StageOrder, st.status) >= indexOf(StageOrder, step.status)

\* variant: any terminal status, failed included, marks every step done
isCompletedTerminal(st, step) ==
    \/ OptionalStatus(st) = "completed" \/ OptionalStatus(st) = "failed"
    \/ /\ Truthy(st)
       /\ indexOf(StageOrder, st.status) > indexOf(StageOrder, step.status)

\* const isCompleted = status?.status === 'completed' ||
\*   (status && [four stages].indexOf(status.status) > [four stages].indexOf(step.status))
isCompleted(st, step) ==
    \/ OptionalStatus(st) = "completed"
    \/ /\ Truthy(st)
       /\ indexOf(StageOrder, st.status) > indexOf(StageOrder, step.status)

\* the map callback raises a TypeError exactly when evaluation reaches the
\* unguarded member access status.status (line 141) with status null
stepThrows(st, step) ==
    /\ OptionalStatus(st) # "completed"
    /\ Truthy(st)
    /\ IsNull(st)

\* the list the map produces for a status, one entry per step
StageList(st) ==
    [i \in 1..Len(Steps) |->
        [name |-> Steps[i].name,
         status |-> Steps[i].status,
         isActive |-> isActive(st, Steps[i]),
         isCompleted |-> isCompleted(st, Steps[i])]]

\* rendering the list for a status raises
StageListThrows(st) == \E i \in 1..Len(Steps) : stepThrows(st, Steps[i])

(* ------------------- uploadService / useUpload / UploadPage ------------ *)
\* JS null held by useState(null) for selectedFile; a File has size >= 1
NoFile == [size |-> 0]

\* the files the drop zone can hand over: a request of 3 bytes, whose
\* percentages fall on thirds, and one of 8 bytes, whose percentages fall on
\* halves (12.5, 37.5, ...), where the rounding direction shows
Files == {[size |-> 3], [size |-> 8]}

\* JS null held by useState(null) for uploadedDocument; created jobs have id >= 1
NoDocument == [id |-> 0, status |-> "null"]

\* the DocumentJob that POST /upload/ answers with
DocumentJob(n) == [id |-> n, status |-> "uploaded"]

\* variant: the percentage is truncated
percentCompletedFloor(loaded, total) == (loaded * 100) \div total

\* Math.round((progressEvent.loaded * 100) / progressEvent.total):
\* Math.round(x) is floor(x + 0.5)
percentCompleted(loaded, total) == (loaded * 200 + total) \div (2 * total)

UploadHook == [uploading |-> uploading, progress |-> progress, error |-> uploadError]

SetUploadHook(h) ==
    /\ uploading' = h.uploading
    /\ progress' = h.progress
    /\ uploadError' = h.error

\* setUploading(true); setError(null); setProgress(0)
uploadDocumentStart(h) ==
    [h EXCEPT !.uploading = TRUE, !.error = NullError, !.progress = 0]

\* the onProgress callback: setProgress(percent)
onProgress(h, percent) == [h EXCEPT !.progress = percent]

\* variant: the hook leaves the progress where the transport left it
uploadDocumentDoneNoForce(h) == [h EXCEPT !.uploading = FALSE]

\* setUploading(false); setProgress(100) after the await
uploadDocumentDone(h) == [h EXCEPT !.uploading = FALSE, !.progress = 100]

\* err.response?.data?.detail || 'Upload failed'
UploadErrorMessage(e) == IF e.detail = "null" THEN "Upload failed" ELSE e.detail

\* variant: the catch also puts the progress back to 0
uploadDocumentCatchClears(h, e) ==
    [h EXCEPT !.uploading = FALSE, !.error = UploadErrorMessage(e), !.progress = 0]

\* the catch block of uploadDocument
uploadDocumentCatch(h, e) ==
    [h EXCEPT !.uploading = FALSE, !.error = UploadErrorMessage(e)]

\* variant: reset forgets the error
resetUploadKeepsError(h) == [h EXCEPT !.uploading = FALSE, !.progress = 0]

\* useUpload.reset
resetUpload(h) == [uploading |-> FALSE, progress |-> 0, error |-> NullError]

\* no uploadDocument call made yet
NoUpload ==
    [pc |-> "none", total |-> 0, ticks |-> <<>>, reported |-> <<>>,
     shown |-> <<>>, log |-> <<>>, ret |-> [success |-> FALSE, data |-> NoDocument],
     failedWith |-> NoError, resetSince |-> FALSE]

(* An uploadDocument call record: pc is "inflight", "resolved" or         *)
(* "rejected"; total the byte length of the request; ticks the loaded      *)
(* counts the transport reported; reported the percentages handed to       *)
(* onProgress; shown the values the progress state took since the call     *)
(* began (the last one after a resolve is the value it has when the call   *)
(* returns); log its events ("set0", "tick", "resolve", "reject"); ret     *)
(* what uploadDocument returned; failedWith the error the request rejected *)
(* with; resetSince that reset ran after it.                               *)
NewUpload(total) ==
    [NoUpload EXCEPT !.pc = "inflight", !.total = total,
                     !.shown = <<0>>, !.log = <<"set0">>]

InitUpload ==
    /\ selectedFile = NoFile
    /\ uploadedDocument = NoDocument
    /\ uploading = FALSE
    /\ progress = 0
    /\ uploadError = NullError
    /\ upload = NoUpload
    /\ nupload = 0

(* --------------------- queryService / useQuery / QueryPage ------------- *)
\* the ids of the caller's completed documents, as GET /upload/my-documents
\* returns them
DocIds == <<1, 2>>

\* texts the user can have typed into the chat box, as character sequences
Texts == {<<" ">>, <<" ", "a">>}

\* String.prototype.trim
RECURSIVE Trim(_)
Trim(s) ==
    IF s = <<>> THEN s
    ELSE IF Head(s) = " " THEN Trim(Tail(s))
    ELSE IF s[Len(s)] = " " THEN Trim(SubSeq(s, 1, Len(s) - 1))
    ELSE s

\* answers the backend can give to a query
Answers == {1, 2}

\* useQuery result: useState(null)
NoResult == 0

\* an argument the caller left out
Undefined == -1

\* the documentIds argument: left out, null, or a list of ids
UndefinedIds == [kind |-> "undefined", ids |-> <<>>]

NullIds == [kind |-> "null", ids |-> <<>>]

Ids(list) == [kind |-> "list", ids |-> list]

\* topK = 5
DefaultTopK == 5

\* another value a caller can pass for topK
OtherTopK == 3

\* default parameter documentIds = null
documentIdsOrDefault(arg) == IF arg = UndefinedIds THEN NullIds ELSE arg

\* default parameter topK = 5
topKOrDefault(arg) == IF arg = Undefined THEN DefaultTopK ELSE arg

\* variant: a request whose body was sent before is not sent again
queryDocumentsDedup(reqs, query, documentIds, topK) ==
    LET body == [query |-> query,
                 document_ids |-> documentIdsOrDefault(documentIds),
                 top_k |-> topKOrDefault(topK)]
    IN  IF \E i \in 1..Len(reqs) : reqs[i] = body THEN reqs ELSE Append(reqs, body)

\* queryService.queryDocuments up to the POST: one request with the body
\* {query, document_ids, top_k}
queryDocuments(reqs, query, documentIds, topK) ==
    Append(reqs, [query |-> query,
                  document_ids |-> documentIdsOrDefault(documentIds),
                  top_k |-> topKOrDefault(topK)])

\* variant: the selection is passed as it is, also when it is empty
docIdsAlwaysList(selected) == Ids(selected)

\* handleQuery: selectedDocs.length > 0 ? selectedDocs : null
docIds(selected) == IF Len(selected) > 0 THEN Ids(selected) ELSE NullIds

\* Array.prototype.includes
includes(list, x) == \E i \in 1..Len(list) : list[i] = x

\* toggleDocument's updater: prev.includes(docId) ? prev.filter(id => id !==
\* docId) : [...prev, docId]
toggle(prev, docId) ==
    IF includes(prev, docId)
    THEN SelectSeq(prev, LAMBDA id : id # docId)
    ELSE Append(prev, docId)

QueryHook == [querying |-> querying, result |-> queryResult, error |-> queryError]

SetQueryHook(h) ==
    /\ querying' = h.querying
    /\ queryResult' = h.result
    /\ queryError' = h.error

\* executeQuery before the request: setQuerying(true); setError(null)
executeQueryStart(h) == [h EXCEPT !.querying = TRUE, !.error = NullError]

\* executeQuery after the request resolved: setResult(response);
\* setQuerying(false)
executeQueryDone(h, response) == [h EXCEPT !.result = response, !.querying = FALSE]

\* err.response?.data?.detail || 'Query failed'
QueryErrorMessage(e) == IF e.detail = "null" THEN "Query failed" ELSE e.detail

\* variant: the detail is stored as it is, without a fallback
executeQueryCatchDetail(h, e) == [h EXCEPT !.querying = FALSE, !.error = e.detail]

\* executeQuery's catch: setQuerying(false); setError(detail || 'Query failed')
executeQueryCatch(h, e) ==
    [h EXCEPT !.querying = FALSE, !.error = QueryErrorMessage(e)]

\* variant: the new record is put at the end of the history
handleQueryAfterAppends(current, captured, result) ==
    IF result.success THEN Append(captured, result.data) ELSE current

\* handleQuery after executeQuery returned: if (result.success)
\* setQueryHistory([result.data, ...queryHistory]), with the queryHistory
\* of the render in which the query was submitted (captured); current is
\* the history the page holds now
handleQueryAfter(current, captured, result) ==
    IF result.success THEN <<result.data>> \o captured ELSE current

\* variant: the chat box does not look at loading
canSubmitWhileLoading(text, loading) == Trim(text) # <<>>

\* ChatBox.handleSubmit: query.trim() && !loading
canSubmit(text, loading) == Trim(text) # <<>> /\ ~loading

\* no executeQuery call has started or failed yet
NoQueryEvent == [kind |-> "none", e |-> NoError]

(* An executeQuery call record: query, documentIds and topK are the        *)
(* arguments of the call; page tells a call made by the page's handleQuery *)
(* from one made by another caller; selection and history are the page's   *)
(* selectedDocs and queryHistory when handleQuery ran; pc is "inflight",   *)
(* "resolved" or "rejected"; answer is the response the backend gave.      *)
NewQuery(query, documentIds, topK, page) ==
    [query |-> query, documentIds |-> documentIds, topK |-> topK, page |-> page,
     selection |-> selectedDocs, history |-> queryHistory, pc |-> "inflight",
     answer |-> NoResult]

InitQuery ==
    /\ documents = <<>>
    /\ selectedDocs = <<>>
    /\ queryHistory = <<>>
    /\ querying = FALSE
    /\ queryResult = NoResult
    /\ queryError = NullError
    /\ qcalls = <<>>
    /\ requests = <<>>
    /\ lastQueryEvent = NoQueryEvent

(* ------------------------------ the page ------------------------------- *)
Init ==
    /\ mounted = TRUE
    /\ inst = 1
    /\ hasStarted = FALSE
    /\ processing = FALSE
    /\ status = NullStatus
    /\ error = NullError
    /\ runs = <<>>
    /\ nfetch = 0
    /\ InitUpload
    /\ InitQuery

\* the stage list the mounted page shows for the status it holds
stages == StageList(status)

\* variant: Try Again is rendered for every status the page holds
TryAgainOfferedAnyStatus == mounted /\ ~IsNull(status)

\* the Start Processing button is rendered and enabled
StartOffered == mounted /\ ~hasStarted /\ IsNull(status) /\ ~processing

\* the Try Again button is rendered
TryAgainOffered == mounted /\ ~IsNull(status) /\ status.status = "failed"

\* click on Start Processing: handleStartProcessing up to the POST
handleStartProcessing ==
    /\ StartOffered
    /\ Len(runs) < MaxCalls
    /\ hasStarted' = TRUE
    /\ SetHook(startProcessing(Hook))
    /\ runs' = Append(runs, NewRun("useOCR", inst, DefaultInterval, "starting"))
    /\ UNCHANGED <<mounted, inst, nfetch>>
    /\ UNCHANGED <<uploadVars, queryVars>>

\* POST /ocr/{id}/process acknowledged: pollStatus starts, first GET issued
StartAcknowledged(r) ==
    /\ runs[r].pc = "starting"
    /\ nfetch < MaxFetches
    /\ nfetch' = nfetch + 1
    /\ runs' = [runs EXCEPT ![r] = getProcessingStatus(@)]
    /\ UNCHANGED <<mounted, inst, hasStarted, processing, status, error>>
    /\ UNCHANGED <<uploadVars, queryVars>>

\* POST /ocr/{id}/process rejected: the catch of useOCR.startProcessing
StartRejected(r, e) ==
    /\ runs[r].pc = "starting"
    /\ runs' = [runs EXCEPT ![r] = [startProcessingRejected(@) EXCEPT !.failedWith = e]]
    /\ SetHook(IF Live(runs[r]) THEN startProcessingCatch(Hook, e) ELSE Hook)
    /\ UNCHANGED <<mounted, inst, hasStarted, nfetch>>
    /\ UNCHANGED <<uploadVars, queryVars>>

\* pollStatus called directly with a caller-supplied callback and interval
CallPollStatus(interval) ==
    /\ Len(runs) < MaxPolls
    /\ nfetch < MaxFetches
    /\ nfetch' = nfetch + 1
    /\ runs' = Append(runs,
                 getProcessingStatus(NewRun("direct", 0, interval, "polling")))
    /\ UNCHANGED <<mounted, inst, hasStarted, processing, status, error>>
    /\ UNCHANGED <<uploadVars, queryVars>>

\* a status GET resolved with status s; throws: the callback raises
FetchResolved(r, s, throws) ==
    /\ runs[r].pc = "fetching"
    /\ throws => runs[r].caller = "direct"
    /\ LET o == Observation(Len(runs[r].received) + 1, s)
           got == [runs[r] EXCEPT !.log = Append(@, "resp"),
                                  !.received = Append(@, o)]
           after == poll(got, o, throws)
           ret == IF runs[r].caller = "useOCR" /\ after.pc = "resolved"
                  THEN "success" ELSE after.ret
       IN  /\ runs' = [runs EXCEPT ![r] = [after EXCEPT !.ret = ret]]
           /\ SetHook(IF Live(runs[r]) THEN onUpdate(Hook, o) ELSE Hook)
    /\ UNCHANGED <<mounted, inst, hasStarted, nfetch>>
    /\ UNCHANGED <<uploadVars, queryVars>>

\* a status GET rejected with error e
FetchRejected(r, e) ==
    /\ runs[r].pc = "fetching"
    /\ LET got == [runs[r] EXCEPT !.log = Append(@, "error"), !.failedWith = e]
           after == pollCatch(got, e)
           caught == runs[r].caller = "useOCR" /\ after.pc = "rejected"
       IN  /\ runs' = [runs EXCEPT ![r] =
                         [after EXCEPT !.ret = IF caught THEN "failure" ELSE @]]
           /\ SetHook(IF caught /\ Live(runs[r])
                      THEN startProcessingCatch(Hook, after.result.error)
                      ELSE Hook)
    /\ UNCHANGED <<mounted, inst, hasStarted, nfetch>>
    /\ UNCHANGED <<uploadVars, queryVars>>

\* the setTimeout of the wait fires: return poll() issues the next GET
TimerFired(r) ==
    /\ runs[r].pc = "waiting"
    /\ nfetch < MaxFetches
    /\ nfetch' = nfetch + 1
    /\ runs' = [runs EXCEPT ![r] = getProcessingStatus(@)]
    /\ UNCHANGED <<mounted, inst, hasStarted, processing, status, error>>
    /\ UNCHANGED <<uploadVars, queryVars>>

\* click on Try Again: reset(); setHasStarted(false)
TryAgain ==
    /\ TryAgainOffered
    /\ SetHook(reset(Hook))
    /\ hasStarted' = FALSE
    /\ UNCHANGED <<mounted, inst, runs, nfetch>>
    /\ UNCHANGED <<uploadVars, queryVars>>

\* the page unmounts (navigation away): the effect cleanup runs reset()
Unmount ==
    /\ mounted
    /\ mounted' = FALSE
    /\ SetHook(reset(Hook))
    /\ hasStarted' = FALSE
    /\ UNCHANGED <<inst, runs, nfetch>>
    /\ UNCHANGED <<uploadVars, queryVars>>

\* the page for the same document is mounted again: fresh component state
Mount ==
    /\ ~mounted
    /\ inst < MaxMounts
    /\ mounted' = TRUE
    /\ inst' = inst + 1
    /\ hasStarted' = FALSE
    /\ processing' = FALSE
    /\ status' = NullStatus
    /\ error' = NullError
    /\ UNCHANGED <<runs, nfetch>>
    /\ UNCHANGED <<uploadVars, queryVars>>

\* the processing page and the calls it makes through useOCR
Next ==
    \/ handleStartProcessing
    \/ \E r \in 1..Len(runs) : StartAcknowledged(r)
    \/ \E r \in 1..Len(runs), e \in Errors : StartRejected(r, e)
    \/ \E r \in 1..Len(runs), s \in StatusEnum : FetchResolved(r, s, FALSE)
    \/ \E r \in 1..Len(runs), e \in Errors : FetchRejected(r, e)
    \/ \E r \in 1..Len(runs) : TimerFired(r)
    \/ TryAgain
    \/ Unmount
    \/ Mount

Spec == Init /\ [][Next]_vars

\* pollStatus alone, called with any callback and interval
NextPoll ==
    \/ \E i \in {DefaultInterval, ShortInterval} : CallPollStatus(i)
    \/ \E r \in 1..Len(runs), e \in Errors : FetchRejected(r, e)
    \/ \E r \in 1..Len(runs), s \in AnyStatus, t \in BOOLEAN : FetchResolved(r, s, t)
    \/ \E r \in 1..Len(runs) : TimerFired(r)

SpecPoll == Init /\ [][NextPoll]_vars

(* ------------------------------ UploadPage ----------------------------- *)
\* the drop zone is rendered (!uploadedDocument) and not disabled
SelectOffered == uploadedDocument = NoDocument /\ ~uploading

\* the Upload Document button is rendered
UploadOffered ==
    /\ uploadedDocument = NoDocument
    /\ selectedFile # NoFile
    /\ ~uploading
    /\ uploadError = NullError

\* the Try Again button is rendered
UploadTryAgainOffered ==
    /\ uploadedDocument = NoDocument
    /\ selectedFile # NoFile
    /\ uploadError # NullError

\* the Upload Another Document button is rendered
UploadAnotherOffered == uploadedDocument # NoDocument

\* a file is dropped on the drop zone: reset(); setSelectedFile(file);
\* setUploadedDocument(null)
handleFileSelect(f) ==
    /\ SelectOffered
    /\ SetUploadHook(resetUpload(UploadHook))
    /\ selectedFile' = f
    /\ uploadedDocument' = NoDocument
    /\ upload' = [upload EXCEPT !.resetSince = TRUE]
    /\ UNCHANGED nupload
    /\ UNCHANGED <<ocrVars, queryVars>>

\* click on Upload Document: handleUpload and uploadDocument up to the POST
handleUpload ==
    /\ UploadOffered
    /\ selectedFile # NoFile
    /\ nupload < MaxUploads
    /\ nupload' = nupload + 1
    /\ SetUploadHook(uploadDocumentStart(UploadHook))
    /\ upload' = NewUpload(selectedFile.size)
    /\ UNCHANGED <<selectedFile, uploadedDocument>>
    /\ UNCHANGED <<ocrVars, queryVars>>

\* a transport progress event: onUploadProgress computes the percentage and
\* hands it to onProgress
UploadProgress(loaded) ==
    /\ upload.pc = "inflight"
    /\ Len(upload.ticks) < MaxTicks
    /\ LET percent == percentCompleted(loaded, upload.total)
           h == onProgress(UploadHook, percent)
       IN  /\ SetUploadHook(h)
           /\ upload' = [upload EXCEPT !.ticks = Append(@, loaded),
                                       !.reported = Append(@, percent),
                                       !.shown = Append(@, h.progress),
                                       !.log = Append(@, "tick")]
    /\ UNCHANGED <<selectedFile, uploadedDocument, nupload>>
    /\ UNCHANGED <<ocrVars, queryVars>>

\* POST /upload/ resolved: the rest of uploadDocument, then of handleUpload
\* (result.success: setUploadedDocument(result.data))
UploadResolved ==
    /\ upload.pc = "inflight"
    /\ LET h == uploadDocumentDone(UploadHook)
       IN  /\ SetUploadHook(h)
           /\ upload' = [upload EXCEPT
                  !.pc = "resolved",
                  !.shown = Append(@, h.progress),
                  !.log = Append(@, "resolve"),
                  !.ret = [success |-> TRUE, data |-> DocumentJob(nupload)]]
    /\ uploadedDocument' = DocumentJob(nupload)
    /\ UNCHANGED <<selectedFile, nupload>>
    /\ UNCHANGED <<ocrVars, queryVars>>

\* POST /upload/ rejected: the catch of uploadDocument; handleUpload sees
\* result.success false and does nothing
UploadRejected(e) ==
    /\ upload.pc = "inflight"
    /\ LET h == uploadDocumentCatch(UploadHook, e)
       IN  /\ SetUploadHook(h)
           /\ upload' = [upload EXCEPT
                  !.pc = "rejected",
                  !.shown = IF h.progress # progress THEN Append(@, h.progress) ELSE @,
                  !.log = Append(@, "reject"),
                  !.failedWith = e,
                  !.ret = [success |-> FALSE, data |-> NoDocument]]
    /\ UNCHANGED <<selectedFile, uploadedDocument, nupload>>
    /\ UNCHANGED <<ocrVars, queryVars>>

\* click on Try Again or Upload Another Document: setSelectedFile(null);
\* setUploadedDocument(null); reset()
handleUploadAnother ==
    /\ UploadTryAgainOffered \/ UploadAnotherOffered
    /\ selectedFile' = NoFile
    /\ uploadedDocument' = NoDocument
    /\ SetUploadHook(resetUpload(UploadHook))
    /\ upload' = [upload EXCEPT !.resetSince = TRUE]
    /\ UNCHANGED nupload
    /\ UNCHANGED <<ocrVars, queryVars>>

NextUpload ==
    \/ \E f \in Files : handleFileSelect(f)
    \/ handleUpload
    \/ \E loaded \in 0..upload.total : UploadProgress(loaded)
    \/ UploadResolved
    \/ \E e \in Errors : UploadRejected(e)
    \/ handleUploadAnother

SpecUpload == Init /\ [][NextUpload]_vars

(* ------------------------------ QueryPage ------------------------------ *)
\* loadDocuments resolved: setDocuments(completedDocs)
DocumentsLoaded ==
    /\ documents = <<>>
    /\ documents' = DocIds
    /\ UNCHANGED <<selectedDocs, queryHistory, querying, queryResult, queryError,
                   qcalls, requests, lastQueryEvent>>
    /\ UNCHANGED <<ocrVars, uploadVars>>

\* click on a document's filter button
toggleDocument(docId) ==
    /\ includes(documents, docId)
    /\ selectedDocs' = toggle(selectedDocs, docId)
    /\ UNCHANGED <<documents, queryHistory, querying, queryResult, queryError,
                   qcalls, requests, lastQueryEvent>>
    /\ UNCHANGED <<ocrVars, uploadVars>>

\* click on All Documents: setSelectedDocs([])
AllDocuments ==
    /\ documents # <<>>
    /\ selectedDocs' = <<>>
    /\ UNCHANGED <<documents, queryHistory, querying, queryResult, queryError,
                   qcalls, requests, lastQueryEvent>>
    /\ UNCHANGED <<ocrVars, uploadVars>>

\* useQuery.executeQuery up to the POST /query/
executeQuery(query, documentIds, topK, page) ==
    /\ Len(qcalls) < MaxQueries
    /\ SetQueryHook(executeQueryStart(QueryHook))
    /\ requests' = queryDocuments(requests, query,
                                  documentIdsOrDefault(documentIds), topKOrDefault(topK))
    /\ qcalls' = Append(qcalls, NewQuery(query, documentIds, topK, page))
    /\ lastQueryEvent' = [kind |-> "start", e |-> NoError]
    /\ UNCHANGED <<documents, selectedDocs, queryHistory>>
    /\ UNCHANGED <<ocrVars, uploadVars>>

\* the chat box form is submitted with text typed in: ChatBox.handleSubmit,
\* then QueryPage.handleQuery up to the request
handleSubmit(text) ==
    /\ canSubmit(text, querying)
    /\ executeQuery(text, docIds(selectedDocs), Undefined, TRUE)

\* a caller other than the page calls executeQuery(query, undefined, topK)
CallExecuteQuery(text, topK) == executeQuery(text, UndefinedIds, topK, FALSE)

\* POST /query/ of call c resolved: the rest of executeQuery, then of
\* handleQuery (setQueryHistory([result.data, ...queryHistory]))
QueryResolved(c, answer) ==
    /\ c \in 1..Len(qcalls) /\ qcalls[c].pc = "inflight"
    /\ SetQueryHook(executeQueryDone(QueryHook, answer))
    /\ queryHistory' = IF qcalls[c].page
                       THEN handleQueryAfter(queryHistory, qcalls[c].history,
                                             [success |-> TRUE, data |-> answer])
                       ELSE queryHistory
    /\ qcalls' = [qcalls EXCEPT ![c].pc = "resolved", ![c].answer = answer]
    /\ UNCHANGED <<documents, selectedDocs, requests, lastQueryEvent>>
    /\ UNCHANGED <<ocrVars, uploadVars>>

\* POST /query/ of call c rejected: executeQuery's catch; handleQuery sees
\* result.success false and does nothing
QueryRejected(c, e) ==
    /\ c \in 1..Len(qcalls) /\ qcalls[c].pc = "inflight"
    /\ SetQueryHook(executeQueryCatch(QueryHook, e))
    /\ queryHistory' = IF qcalls[c].page
                       THEN handleQueryAfter(queryHistory, qcalls[c].history,
                                             [success |-> FALSE, data |-> NoResult])
                       ELSE queryHistory
    /\ qcalls' = [qcalls EXCEPT ![c].pc = "rejected"]
    /\ lastQueryEvent' = [kind |-> "reject", e |-> e]
    /\ UNCHANGED <<documents, selectedDocs, requests>>
    /\ UNCHANGED <<ocrVars, uploadVars>>

NextQuery ==
    \/ DocumentsLoaded
    \/ \E docId \in 1..Len(DocIds) : toggleDocument(DocIds[docId])
    \/ AllDocuments
    \/ \E text \in Texts : handleSubmit(text)
    \/ CallExecuteQuery(<<" ", "a">>, OtherTopK)
    \/ \E c \in 1..MaxQueries, answer \in Answers : QueryResolved(c, answer)
    \/ \E c \in 1..MaxQueries, e \in Errors : QueryRejected(c, e)

SpecQuery == Init /\ [][NextQuery]_vars

\* the query page alone: executeQuery is called by handleQuery only
NextQueryPage ==
    \/ DocumentsLoaded
    \/ \E docId \in 1..Len(DocIds) : toggleDocument(DocIds[docId])
    \/ AllDocuments
    \/ \E text \in Texts : handleSubmit(text)
    \/ \E c \in 1..MaxQueries, answer \in Answers : QueryResolved(c, answer)
    \/ \E c \in 1..MaxQueries, e \in Errors : QueryRejected(c, e)

SpecQueryPage == Init /\ [][NextQueryPage]_vars

(* ------------------------ the three hooks together --------------------- *)
(* useOCR, useUpload and useQuery are used by three pages that share no    *)
(* state: a step of one leaves the variables of the others alone. A        *)
(* property that is a conjunction of statements about one hook each holds  *)
(* in every combined behaviour exactly if each statement holds in the      *)
(* behaviours of its own page, which is what NextHooks explores: one page  *)
(* is used while the other two are as they were constructed.               *)
OCRUnused ==
    /\ mounted /\ inst = 1 /\ ~hasStarted /\ ~processing
    /\ status = NullStatus /\ error = NullError /\ runs = <<>> /\ nfetch = 0

UploadUnused == InitUpload

QueryUnused == InitQuery

NextHooks ==
    \/ UploadUnused /\ QueryUnused /\ Next
    \/ OCRUnused /\ QueryUnused /\ NextUpload
    \/ OCRUnused /\ UploadUnused /\ NextQuery

SpecHooks == Init /\ [][NextHooks]_vars

(* ============================ properties ============================== *)
Count(seq, x) == Cardinality({i \in 1..Len(seq) : seq[i] = x})

Runs == 1..Len(runs)

\* the terminal statuses as the specification names them
TerminalStatuses == {"completed", "failed"}

\* a terminal status was delivered in this call
ObservedTerminal(run) ==
    \E i \in 1..Len(run.delivered) : run.delivered[i].status \in TerminalStatuses

\* the call has settled, by resolving or by rejecting
Ended(run) == run.result.kind # "pending"

\* the backend answered N non-terminal statuses, then a terminal one, and no
\* fetch of the call failed
NonTerminalsThenTerminal(run) ==
    /\ Len(run.received) >= 1
    /\ run.received[Len(run.received)].status \in TerminalStatuses
    /\ \A i \in 1..(Len(run.received) - 1) : run.received[i].status \notin TerminalStatuses
    /\ Count(run.log, "error") = 0

\* with N non-terminal answers then a terminal one, exactly N+1 fetches
ExactlyNPlusOneFetches(run) ==
    NonTerminalsThenTerminal(run) => Count(run.log, "fetch") = Len(run.received)

\* C1 as stated: a pollStatus run terminates if and only if a terminal status
\* (completed or failed) is observed, and N non-terminal answers followed by
\* a terminal one cost exactly N+1 fetches.
C1_TerminatesIffTerminal ==
    \A r \in Runs :
        /\ Ended(runs[r]) <=> ObservedTerminal(runs[r])
        /\ ExactlyNPlusOneFetches(runs[r])

\* C1 amended: a pollStatus run RESOLVES if and only if a terminal status is
\* observed and the callback returned normally; a run that rejects does so
\* because a fetch failed or the callback raised, whether or not a terminal
\* status was observed; N non-terminal answers followed by a terminal one,
\* with no failed fetch, cost exactly N+1 fetches.
C1_ResolvesIffTerminal ==
    \A r \in Runs :
        /\ runs[r].result.kind = "resolved"
             <=> (ObservedTerminal(runs[r]) /\ Count(runs[r].log, "throw") = 0)
        /\ runs[r].result.kind = "rejected"
             => Count(runs[r].log, "error") + Count(runs[r].log, "throw") >= 1
        /\ ExactlyNPlusOneFetches(runs[r])

\* a run that resolved after two non-terminal observations and a terminal one
C1_Witness ==
    \E r \in Runs :
        /\ runs[r].result.kind = "resolved"
        /\ Len(runs[r].received) = 3
        /\ Count(runs[r].log, "fetch") = 3

\* C2: once a status fetch of a run has rejected, that is the last event of
\* the run (no further fetch, no wait, no retry), the run has rejected, and
\* it rejected with the very error the fetch produced.
C2_FetchFailureStopsLoop ==
    \A r \in Runs :
        Count(runs[r].log, "error") >= 1 =>
            /\ Count(runs[r].log, "error") = 1
            /\ runs[r].log[Len(runs[r].log)] = "error"
            /\ runs[r].pc = "rejected"
            /\ runs[r].result.kind = "rejected"
            /\ runs[r].result.error = runs[r].failedWith
            /\ runs[r].failedWith \in Errors

\* a fetch failed after the loop had already delivered an observation and waited
C2_Witness ==
    \E r \in Runs :
        /\ Count(runs[r].log, "error") = 1
        /\ Len(runs[r].delivered) >= 1
        /\ Len(runs[r].waited) >= 1

\* a poll loop started through useOCR that is still fetching or waiting
ActiveLoop(run) == run.caller = "useOCR" /\ run.pc \in {"fetching", "waiting"}

\* the page instance that started the call has been torn down
TornDown(run) == run.caller = "useOCR" /\ (run.owner < inst \/ ~mounted)

\* C3 as stated: once the page that started a poll loop is torn down while
\* the job is non-terminal, the loop issues no further status fetch and
\* delivers no further observation to the callback.
C3_NoLeakPastUnmount ==
    [][\A r \in Runs :
          (ActiveLoop(runs[r]) /\ TornDown(runs[r])) =>
              /\ Count(runs'[r].log, "fetch") = Count(runs[r].log, "fetch")
              /\ runs'[r].delivered = runs[r].delivered]_vars

\* C4 as stated: over any sequence of Start Processing, Try Again, unmount
\* and remount, at most one poll loop for the job is active at any time.
C4_SingleFlight ==
    Cardinality({r \in Runs : ActiveLoop(runs[r])}) <= 1

\* positions of the fetch events of a log
FetchPositions(log) == {i \in 1..Len(log) : log[i] = "fetch"}

\* two fetch events with no fetch event between them
Consecutive(log, i, j) ==
    /\ i \in FetchPositions(log) /\ j \in FetchPositions(log) /\ i < j
    /\ \A k \in (i + 1)..(j - 1) : log[k] # "fetch"

\* C5: between any two consecutive status fetches of a run exactly one wait
\* takes place, every wait lasts the interval of the call, and a call made
\* through useOCR, which passes no interval, waits the default 2000 ms.
C5_OneWaitBetweenFetches ==
    \A r \in Runs :
        /\ \A i, j \in 1..Len(runs[r].log) :
              Consecutive(runs[r].log, i, j) =>
                  Cardinality({k \in (i + 1)..(j - 1) : runs[r].log[k] = "wait"}) = 1
        /\ Len(runs[r].waited) = Count(runs[r].log, "wait")
        /\ \A k \in 1..Len(runs[r].waited) : runs[r].waited[k] = runs[r].interval
        /\ runs[r].caller = "useOCR" => runs[r].interval = 2000

\* a run that issued three fetches, hence waited twice
C5_Witness ==
    \E r \in Runs :
        /\ Count(runs[r].log, "fetch") = 3
        /\ Len(runs[r].waited) = 2

\* C6: the observations passed to the callback are exactly the successful
\* fetch responses, in fetch order, one invocation per response, and when a
\* fetch is issued every earlier fetch of the run has had its callback.
C6_DeliveredInFetchOrder ==
    \A r \in Runs :
        /\ runs[r].delivered = runs[r].received
        /\ Count(runs[r].log, "cb") = Count(runs[r].log, "resp")
        /\ \A i \in FetchPositions(runs[r].log) :
              Count(SubSeq(runs[r].log, 1, i - 1), "cb")
                  = Count(SubSeq(runs[r].log, 1, i - 1), "fetch")

\* a run whose callback has been handed a terminal observation after an
\* earlier, different one
C6_Witness ==
    \E r \in Runs :
        /\ Len(runs[r].delivered) >= 2
        /\ runs[r].delivered[1].status # runs[r].delivered[2].status
        /\ runs[r].delivered[2].status \in TerminalStatuses

\* C7: whenever pollStatus resolves, the resolved value is the last
\* observation delivered to the callback, and its status is terminal.
C7_ResolvesWithLastObservation ==
    \A r \in Runs :
        runs[r].result.kind = "resolved" =>
            /\ Len(runs[r].delivered) >= 1
            /\ runs[r].result.value = runs[r].delivered[Len(runs[r].delivered)]
            /\ runs[r].result.value.status \in TerminalStatuses

\* a run that resolved on its second observation
C7_Witness ==
    \E r \in Runs :
        /\ runs[r].result.kind = "resolved"
        /\ Len(runs[r].delivered) = 2

\* the entry of the rendered stage list for a stage's status value
StageEntry(s) == stages[CHOOSE i \in 1..Len(stages) : stages[i].status = s]

\* the page shows a status with value s
Shows(s) == mounted /\ ~IsNull(status) /\ status.status = s

\* C8 as stated: for status table_extraction, preprocessing and
\* ocr_processing report isCompleted, table_extraction reports isActive, and
\* embedding_generation and completed report both flags false.
C8_TableExtractionStages ==
    Shows("table_extraction") =>
        /\ StageEntry("preprocessing").isCompleted
        /\ StageEntry("ocr_processing").isCompleted
        /\ StageEntry("table_extraction").isActive
        /\ ~StageEntry("embedding_generation").isActive
        /\ ~StageEntry("embedding_generation").isCompleted
        /\ ~StageEntry("completed").isActive
        /\ ~StageEntry("completed").isCompleted

\* the canonical order of the four non-terminal stages
NonTerminalStages ==
    {"preprocessing", "ocr_processing", "table_extraction", "embedding_generation"}

CanonicalPosition(s) ==
    CASE s = "preprocessing" -> 1
      [] s = "ocr_processing" -> 2
      [] s = "table_extraction" -> 3
      [] s = "embedding_generation" -> 4

\* C9: for every status the page can hold and each of the four non-terminal
\* stages s, isCompleted(s) is true exactly when the status is completed or
\* is a non-terminal stage strictly after s in the canonical order.
C9_IsCompletedNonTerminalStages ==
    (mounted /\ ~IsNull(status)) =>
        /\ status.status \in StatusEnum
        /\ ~StageListThrows(status)
        /\ \A s \in NonTerminalStages :
              StageEntry(s).isCompleted <=>
                  \/ status.status = "completed"
                  \/ /\ status.status \in NonTerminalStages
                     /\ CanonicalPosition(status.status) > CanonicalPosition(s)

\* the page shows ocr_processing: one stage is behind it, two are ahead
C9_Witness ==
    /\ Shows("ocr_processing")
    /\ StageEntry("preprocessing").isCompleted
    /\ ~StageEntry("table_extraction").isCompleted

\* C10: for status failed the stage list is produced without throwing, and
\* every stage, the completed stage included, reports isCompleted false and
\* isActive false.
C10_FailedMarksNothing ==
    Shows("failed") =>
        /\ ~StageListThrows(status)
        /\ \A i \in 1..Len(stages) : ~stages[i].isCompleted /\ ~stages[i].isActive

\* the page shows failed after the loop delivered it
C10_Witness ==
    /\ Shows("failed")
    /\ Len(stages) = 5
    /\ \E r \in Runs : Len(runs[r].delivered) >= 1 /\ status \in {runs[r].delivered[i] : i \in 1..Len(runs[r].delivered)}

\* C11: for every status value the page can hold (null, uploaded, failed and
\* the five stage values) and every stage, isActive is true exactly when the
\* status equals the stage's status value; so at most one stage is active.
C11_IsActiveIffStatusEquals ==
    mounted =>
        /\ \A s \in NonTerminalStages \cup {"completed"} :
              StageEntry(s).isActive <=> (~IsNull(status) /\ status.status = s)
        /\ {stages[i].status : i \in 1..Len(stages)} = NonTerminalStages \cup {"completed"}
        /\ Cardinality({i \in 1..Len(stages) : stages[i].isActive}) <= 1

\* the page shows embedding_generation and that stage alone is active
C11_Witness ==
    /\ Shows("embedding_generation")
    /\ StageEntry("embedding_generation").isActive
    /\ Cardinality({i \in 1..Len(stages) : stages[i].isActive}) = 1

\* the status failed was delivered in this call
ObservedFailed(run) ==
    \E i \in 1..Len(run.delivered) : run.delivered[i].status = "failed"

\* C12: a server-reported failed is a normal terminal observation: the poll
\* loop resolves, useOCR.startProcessing returns success, and on the page
\* that made the call the error stays null and processing is false while
\* the failed status is shown.
C12_FailedIsNotAnError ==
    \A r \in Runs :
        (runs[r].caller = "useOCR" /\ ObservedFailed(runs[r])) =>
            /\ runs[r].result.kind = "resolved"
            /\ runs[r].result.value.status = "failed"
            /\ runs[r].ret = "success"
            /\ (Live(runs[r]) /\ status = runs[r].result.value) =>
                  (error = NullError /\ ~processing)

\* the page shows the failed status its own call delivered
C12_Witness ==
    \E r \in Runs :
        /\ runs[r].caller = "useOCR" /\ Live(runs[r])
        /\ ObservedFailed(runs[r])
        /\ Len(runs[r].delivered) >= 2
        /\ status = runs[r].result.value

\* the latest startProcessing call of the mounted page instance has failed
LastCallFailed ==
    /\ mounted
    /\ \E r \in Runs :
          /\ Live(runs[r]) /\ runs[r].ret = "failure"
          /\ \A q \in Runs : (Live(runs[q]) /\ q # r) => q < r

\* C13 as stated: after a start-processing request or a status fetch fails,
\* the page offers an enabled Start Processing or Try Again action.
C13_RetryOfferedAfterFailure ==
    LastCallFailed => (StartOffered \/ TryAgainOffered)

NonDecreasing(seq) == \A i, j \in 1..Len(seq) : i <= j => seq[i] <= seq[j]

\* C14: for an upload that completes successfully, provided the transport
\* reported non-decreasing byte counts, the values the progress state took
\* since uploadDocument began are non-decreasing and end with 100; they are
\* 0, then the transport's percentages, then the 100 set after the promise
\* resolved. While the transfer runs no value is forced.
C14_ProgressMonotoneEndsAt100 ==
    /\ upload.pc = "inflight" => upload.shown = <<0>> \o upload.reported
    /\ upload.pc = "resolved" =>
          /\ upload.shown = (<<0>> \o upload.reported) \o <<100>>
          /\ upload.log[Len(upload.log)] = "resolve"
          /\ upload.ret.success /\ upload.ret.data # NoDocument
          /\ ~upload.resetSince => (progress = 100 /\ ~uploading)
          /\ NonDecreasing(upload.ticks) => NonDecreasing(upload.shown)

\* a completed upload whose transport never reported the full byte count
C14_Witness ==
    /\ upload.pc = "resolved"
    /\ upload.total = 8
    /\ upload.ticks = <<1, 5>>
    /\ upload.shown = <<0, 13, 63, 100>>

\* C15: every transport progress event invokes the progress callback once,
\* with round(loaded * 100 / total) (halves rounded up), an integer in [0,100]
\* whenever 0 <= loaded <= total.
C15_PercentIsRounded ==
    /\ Len(upload.reported) = Len(upload.ticks)
    /\ \A k \in 1..Len(upload.ticks) :
          LET l == upload.ticks[k]
              p == upload.reported[k]
          IN  (0 <= l /\ l <= upload.total) =>
                  /\ p \in 0..100
                  /\ 200 * l - upload.total < 2 * p * upload.total
                  /\ 2 * p * upload.total <= 200 * l + upload.total

\* 1 of 8 bytes sent is 12.5 percent, reported as 13; 2 of 3 is 67
C15_Witness ==
    \/ upload.total = 8 /\ upload.ticks = <<1>> /\ upload.reported = <<13>>
    \/ upload.total = 3 /\ upload.ticks = <<2>> /\ upload.reported = <<67>>

\* the percentage the transport reported last in this upload, 0 if none
LastReported == IF upload.reported = <<>> THEN 0 ELSE upload.reported[Len(upload.reported)]

\* C16: when the upload request rejects, uploadDocument returns a failure
\* without a DocumentJob, uploading is false, and the progress state keeps
\* the last value the transport reported until reset is called, which puts
\* it back to 0.
C16_FailureLeavesProgress ==
    upload.pc = "rejected" =>
        /\ ~upload.ret.success
        /\ upload.ret.data = NoDocument
        /\ uploadedDocument = NoDocument
        /\ ~uploading
        /\ ~upload.resetSince => (progress = LastReported /\ uploadError # NullError)
        /\ upload.resetSince => progress = 0

\* a failed upload that stopped at 63 percent
C16_Witness ==
    /\ upload.pc = "rejected"
    /\ ~upload.resetSince
    /\ upload.ticks = <<1, 5>>
    /\ progress = 63

\* C18: after a failed upload the page offers Try Again; clicking it clears
\* the error, the progress and the selected file and leaves the drop zone
\* enabled; selecting a file then makes Upload Document available.
C18_UploadRetryAvailable ==
    /\ []((upload.pc = "rejected" /\ ~upload.resetSince) => UploadTryAgainOffered)
    /\ [][(UploadTryAgainOffered /\ handleUploadAnother) =>
             (/\ uploadError' = NullError
              /\ progress' = 0
              /\ selectedFile' = NoFile
              /\ SelectOffered')]_vars
    /\ [][(\E f \in Files : handleFileSelect(f)) => UploadOffered']_vars

\* a second upload is under way after the first one failed and was cleared
C18_Witness ==
    /\ nupload = 2
    /\ upload.pc = "inflight"
    /\ uploading

\* what the claim expects an error state to hold after a failure with e
Expected(e, fallback) == IF e.detail = "null" THEN fallback ELSE e.detail

\* the latest startProcessing call of the mounted page instance
LatestLiveRun(r) ==
    /\ mounted /\ Live(runs[r])
    /\ \A q \in Runs : Live(runs[q]) => q <= r

\* C17: after a failed upload, a failed start-processing or status fetch, or
\* a failed query, the hook's error state holds the detail message of the
\* error when it carries one and the hook's fallback string otherwise, never
\* null; from the start of the next operation on it is null again.
C17_ErrorMessageOrFallback ==
    /\ upload.pc = "inflight" => uploadError = NullError
    /\ (upload.pc = "rejected" /\ ~upload.resetSince) =>
          /\ uploadError = Expected(upload.failedWith, "Upload failed")
          /\ uploadError # NullError
    /\ \A r \in Runs : LatestLiveRun(r) =>
          /\ runs[r].ret = "pending" => error = NullError
          /\ runs[r].ret = "failure" =>
                /\ error = Expected(runs[r].failedWith, "Processing failed")
                /\ error # NullError
    /\ lastQueryEvent.kind = "start" => queryError = NullError
    /\ lastQueryEvent.kind = "reject" =>
          /\ queryError = Expected(lastQueryEvent.e, "Query failed")
          /\ queryError # NullError

\* a query failed without a server message, after an earlier failure with one
\* had been cleared by the start of this query
C17_Witness ==
    /\ Len(qcalls) = 2
    /\ qcalls[1].pc = "rejected" /\ qcalls[2].pc = "rejected"
    /\ lastQueryEvent.kind = "reject"
    /\ lastQueryEvent.e.detail = "null"
    /\ queryError = "Query failed"

\* C19: a request made from the query page carries document_ids null when no
\* document was selected at the submit and the list of selected ids
\* otherwise; top_k is 5 when the caller passed none and the caller's value
\* otherwise.
C19_DocumentIdsAndTopK ==
    \A i \in 1..Len(qcalls) : i <= Len(requests) =>
        LET call == qcalls[i]
            body == requests[i]
        IN  /\ (call.page /\ call.selection = <<>>) => body.document_ids = NullIds
            /\ (call.page /\ call.selection # <<>>) =>
                  body.document_ids = Ids(call.selection)
            /\ call.topK = Undefined => body.top_k = 5
            /\ call.topK # Undefined => body.top_k = call.topK

\* one query sent with no selection, another with both documents selected,
\* second one first
C19_Witness ==
    /\ Len(requests) = 2
    /\ qcalls[1].page /\ qcalls[2].page
    /\ requests[1].document_ids = NullIds
    /\ requests[2].document_ids = Ids(<<2, 1>>)
    /\ requests[2].top_k = 5

\* C20: every executeQuery call sends one request of its own, carrying the
\* query of the call, also when an earlier call had the same inputs.
C20_OneRequestPerCall ==
    /\ Len(requests) = Len(qcalls)
    /\ \A i \in 1..Len(qcalls) : i <= Len(requests) =>
          requests[i].query = qcalls[i].query

\* two calls with the same inputs, the first already answered: two requests
C20_Witness ==
    /\ Len(qcalls) = 2
    /\ qcalls[1].pc = "resolved"
    /\ qcalls[1].query = qcalls[2].query
    /\ qcalls[1].documentIds = qcalls[2].documentIds
    /\ qcalls[1].topK = qcalls[2].topK
    /\ Len(requests) = 2
    /\ requests[1] = requests[2]

\* the last element of a non-empty sequence
Last(seq) == seq[Len(seq)]

\* C21: the status useOCR holds is null or is, as a whole, the observation
\* the poller delivered last in the latest call of the mounted page; a step
\* that changes it either makes it null or makes it the observation
\* delivered in that step.
C21_StatusReplacedWholesale ==
    /\ [](~IsNull(status) =>
            \E r \in Runs :
                /\ LatestLiveRun(r)
                /\ runs[r].delivered # <<>>
                /\ status = Last(runs[r].delivered))
    /\ [][status' # status =>
            \/ status' = NullStatus
            \/ \E r \in Runs :
                  /\ Len(runs'[r].delivered) = Len(runs[r].delivered) + 1
                  /\ status' = Last(runs'[r].delivered)]_vars

\* the page holds the second observation of its call
C21_Witness ==
    \E r \in Runs :
        /\ LatestLiveRun(r)
        /\ Len(runs[r].delivered) = 2
        /\ status = runs[r].delivered[2]
        /\ status.id = 2

\* position of a status in the order the backend moves a job through;
\* failed is reachable from every position
Position(s) ==
    CASE s = "uploaded" -> 0
      [] s \in NonTerminalStages -> CanonicalPosition(s)
      [] s = "completed" -> 5
      [] s = "failed" -> 6

\* a sequence of observations that only advances or jumps to failed
Advancing(obs) ==
    \A i \in 1..(Len(obs) - 1) : Position(obs[i].status) <= Position(obs[i + 1].status)

\* C22: in a poll run whose responses only advance through the canonical
\* order or jump to failed, each observation delivered to the callback is at
\* the same or a later position than the one before, or is failed, and the
\* status the page holds for its call is not behind any observation
\* delivered in it.
C22_StatusNeverRegresses ==
    \A r \in Runs : Advancing(runs[r].received) =>
        /\ Advancing(runs[r].delivered)
        /\ (LatestLiveRun(r) /\ ~IsNull(status)) =>
              \A i \in 1..Len(runs[r].delivered) :
                  Position(runs[r].delivered[i].status) <= Position(status.status)

\* the page follows a job from preprocessing over OCR to failed
C22_Witness ==
    \E r \in Runs :
        /\ LatestLiveRun(r)
        /\ Len(runs[r].delivered) = 3
        /\ runs[r].delivered[1].status = "preprocessing"
        /\ runs[r].delivered[2].status = "ocr_processing"
        /\ runs[r].delivered[3].status = "failed"
        /\ status = runs[r].delivered[3]

\* the calls of the page that were answered, in the order they were made
Answered == SelectSeq(qcalls, LAMBDA call : call.page /\ call.pc = "resolved")

\* the number of calls still waiting for their response
Outstanding == Cardinality({c \in 1..Len(qcalls) : qcalls[c].pc = "inflight"})

\* C23: with queries issued one at a time, queryHistory holds exactly the
\* answers of the successful queries, most recent first; a failed query
\* adds nothing and removes nothing.
C23_HistoryAccumulates ==
    queryHistory = [i \in 1..Len(Answered) |-> Answered[Len(Answered) + 1 - i].answer]

\* two queries answered with different answers, the later one listed first
C23_Witness ==
    /\ Len(qcalls) = 2
    /\ qcalls[1].pc = "resolved" /\ qcalls[1].answer = 2
    /\ qcalls[2].pc = "resolved" /\ qcalls[2].answer = 1
    /\ queryHistory = <<1, 2>>

\* C30: while a query is in flight querying is true and the chat box takes
\* no submit, so at most one executeQuery call is outstanding; the call in
\* flight was submitted with the history the page still holds, so its
\* answer is added to all earlier ones and none is lost.
C30_OneQueryOutstanding ==
    /\ Outstanding <= 1
    /\ querying <=> Outstanding = 1
    /\ querying => \A text \in Texts : ~canSubmit(text, querying)
    /\ \A c \in 1..Len(qcalls) : qcalls[c].pc = "inflight" =>
          qcalls[c].history = queryHistory
    /\ Len(queryHistory) = Len(Answered)

\* a second query is in flight after the first one was answered
C30_Witness ==
    /\ Len(qcalls) = 2
    /\ qcalls[1].pc = "resolved"
    /\ qcalls[2].pc = "inflight"
    /\ querying
    /\ Len(queryHistory) = 1

\* the start-processing request of this call was rejected
StartFailed(run) ==
    /\ run.caller = "useOCR"
    /\ run.failedWith # NoError
    /\ Count(run.log, "error") = 0

\* C24: a startProcessing call issues no status fetch while its
\* start-processing request is unanswered, and none at all when that request
\* was rejected: the call then ends as a failure without a poll loop.
C24_NoFetchBeforeAcknowledged ==
    \A r \in Runs :
        /\ runs[r].pc = "starting" => runs[r].log = <<>>
        /\ StartFailed(runs[r]) =>
              /\ Count(runs[r].log, "fetch") = 0
              /\ runs[r].waited = <<>>
              /\ runs[r].pc = "startFailed"
              /\ runs[r].ret = "failure"

\* the start request of the page's call was rejected and the page shows it
C24_Witness ==
    \E r \in Runs :
        /\ LatestLiveRun(r)
        /\ StartFailed(runs[r])
        /\ runs[r].log = <<>>
        /\ error = "Processing failed"

\* the state useOCR.reset establishes
Cleared == IsNull(status) /\ error = NullError /\ ~processing

OnlyNonTerminal(run) ==
    /\ \A i \in 1..Len(run.received) : run.received[i].status \notin TerminalStatuses
    /\ Count(run.log, "error") = 0
    /\ Count(run.log, "throw") = 0

\* C26: a pollStatus run that has received only statuses other than
\* completed and failed (uploaded and undocumented values included), with no
\* failed fetch, has not settled: it is fetching or waiting, has waited once
\* per response and has issued a fetch after every wait that ended, however
\* many responses there were.
C26_NonTerminalNeverResolves ==
    \A r \in Runs : (runs[r].caller = "direct" /\ OnlyNonTerminal(runs[r])) =>
        /\ runs[r].pc \in {"fetching", "waiting"}
        /\ runs[r].result.kind = "pending"
        /\ Len(runs[r].waited) = Len(runs[r].received)
        /\ Count(runs[r].log, "fetch") =
              Len(runs[r].received) + (IF runs[r].pc = "fetching" THEN 1 ELSE 0)

\* the job was reported as uploaded, then with an undocumented status, and
\* the run has issued its third fetch
C26_Witness ==
    \E r \in Runs :
        /\ runs[r].caller = "direct"
        /\ Len(runs[r].received) = 2
        /\ runs[r].received[1].status = "uploaded"
        /\ runs[r].received[2].status = UndocumentedStatus
        /\ runs[r].pc = "fetching"
        /\ Count(runs[r].log, "fetch") = 3

\* C27: when the callback raises on an observation, terminal or not, the run
\* stops there: the raise is the last event of the run, no wait or fetch
\* follows, and pollStatus rejects with the exception of the callback.
C27_CallbackThrowStopsLoop ==
    \A r \in Runs : Count(runs[r].log, "throw") > 0 =>
        /\ Last(runs[r].log) = "throw"
        /\ Count(runs[r].log, "throw") = 1
        /\ runs[r].pc = "rejected"
        /\ runs[r].result.kind = "rejected"
        /\ runs[r].result.error = CallbackError
        /\ Count(runs[r].log, "fetch") = Len(runs[r].delivered)
        /\ Len(runs[r].waited) = Len(runs[r].delivered) - 1

\* the callback raised on the second observation, a non-terminal one
C27_Witness ==
    \E r \in Runs :
        /\ Len(runs[r].delivered) = 2
        /\ runs[r].delivered[2].status = "ocr_processing"
        /\ Last(runs[r].log) = "throw"
        /\ runs[r].pc = "rejected"

\* the startProcessing call has returned its result
Settled(run) == run.caller = "useOCR" /\ run.ret \in {"success", "failure"}

\* C28: when the latest startProcessing call has settled, processing is
\* false; in a call of the mounted page it is false as soon as a terminal
\* observation has been delivered.
C28_ProcessingFalseWhenSettled ==
    /\ (runs # <<>> /\ Settled(Last(runs))) => ~processing
    /\ \A r \in Runs :
          (LatestLiveRun(r) /\ ObservedTerminal(runs[r])) => ~processing

\* the page's call ended with the job completed after one stage in progress
C28_Witness ==
    \E r \in Runs :
        /\ LatestLiveRun(r)
        /\ runs[r].ret = "success"
        /\ Len(runs[r].delivered) = 2
        /\ status.status = "completed"
        /\ ~processing

\* a call of this page instance that has not ended yet
ActiveCall(run) ==
    /\ Live(run)
    /\ run.pc \in {"starting", "fetching", "waiting"}

\* C29: the page offers Start Processing only while no call started by this
\* page instance is still starting or polling, and offers Try Again only
\* when the latest such call has delivered a failed observation and ended;
\* so a new startProcessing never overlaps a loop of the same instance.
C29_StartOnlyWhenNoLoopActive ==
    /\ StartOffered =>
          /\ \A r \in Runs : ~ActiveCall(runs[r])
          /\ \A r \in Runs : LatestLiveRun(r) =>
                /\ runs[r].delivered # <<>>
                /\ Last(runs[r].delivered).status = "failed"
    /\ TryAgainOffered =>
          /\ \A r \in Runs : ~ActiveCall(runs[r])
          /\ \E r \in Runs :
                /\ LatestLiveRun(r)
                /\ Last(runs[r].delivered).status = "failed"
    /\ Cardinality({r \in Runs : ActiveCall(runs[r])}) <= 1

\* Start Processing is offered again after Try Again
C29_Witness ==
    /\ StartOffered
    /\ \E r \in Runs :
          /\ LatestLiveRun(r)
          /\ runs[r].delivered # <<>>
          /\ Last(runs[r].delivered).status = "failed"

====
